---- MODULE Spec2Model ----
(***************************************************************************)
(* Model of argfuscator.py: the tokenizer, the ten techniques, the         *)
(* obfuscate_command pipeline, the CLI loop of main() and _load_config.    *)
(*                                                                         *)
(* A Python string is a sequence of one-character strings.  Characters     *)
(* outside ASCII are written by name: "^a" is the superscript glyph that   *)
(* char_substitutions maps "a" to, "u00ad" is U+00AD, and so on.           *)
(* A random.random() draw is an integer number of hundredths (0..99), a    *)
(* probability is an integer number of hundredths (0..100).                *)
(***************************************************************************)
EXTENDS Integers, Sequences, FiniteSets, TLC

VARIABLES
    pc,               \* position of the running code
    command,          \* args.command / the tokenizer's input
    args_techniques,  \* main()'s `techniques` list; <<>> stands for None too
    probabilities,    \* the caller's overrides; the empty map stands for None
    output,           \* args.output, the number of variants requested
    i,                \* main()'s loop variable
    tokens,           \* obfuscate_command's `tokens`
    techniques,       \* obfuscate_command's `techniques`
    aliased,          \* TRUE when `techniques` is the caller's list object
    probs,            \* obfuscate_command's `probs`
    ti,               \* index of the per-token loop (1-based)
    tj,               \* index of the per-technique loop (1-based)
    result,           \* the value the last obfuscate_command call returned
    effective,        \* history: the technique list in effect in each call
    before,           \* history: `tokens` before the last technique ran
    last,             \* history: what the last technique invocation was
    config_file,      \* the configuration document handed to __init__
    char_substitutions,
    insertion_chars,
    option_chars,
    windows_programs,
    unix_programs,
    config_error      \* TRUE when _load_config printed an error

vars == <<pc, command, args_techniques, probabilities, output, i, tokens,
          techniques, aliased, probs, ti, tj, result, effective, before, last,
          config_file, char_substitutions, insertion_chars, option_chars,
          windows_programs, unix_programs, config_error>>

None == "None"

(***************************************************************************)
(* Characters and strings                                                  *)
(***************************************************************************)
LowerLetters == <<"a","b","c","d","e","f","g","h","i","j","k","l","m",
                  "n","o","p","q","r","s","t","u","v","w","x","y","z">>
UpperLetters == <<"A","B","C","D","E","F","G","H","I","J","K","L","M",
                  "N","O","P","Q","R","S","T","U","V","W","X","Y","Z">>
Digits == <<"0","1","2","3","4","5","6","7","8","9">>

\* the keys and the values of the built-in char_substitutions
SubstKeys == <<"a","b","c","d","e","f","g","h","j","k","l","m",
               "n","o","p","r","s","t","u","v","w","x","y","z">>
SubstGlyphs == <<"^a","^b","^c","^d","^e","^f","^g","^h","^j","^k","^l","^m",
                 "^n","^o","^p","^r","^s","^t","^u","^V","^w","^x","^y","^z">>

Range(s) == {s[k] : k \in DOMAIN s}

IndexOf(s, c) == CHOOSE k \in DOMAIN s : s[k] = c

\* str.isspace()
IsSpace(c) == c \in {" ", "\t"}

\* str.isdigit(), the regular expression class \d
IsDigit(c) == c \in Range(Digits)

DigitVal(c) == IndexOf(Digits, c) - 1

\* str.isalpha(): the ASCII letters, the modifier letters of the substitution
\* table, and U+037F (a Greek capital) with its lower case U+03F3
IsAlpha(c) == c \in Range(LowerLetters) \cup Range(UpperLetters)
                     \cup Range(SubstGlyphs) \cup {"u037f", "u03f3"}

\* the regular expression class \w
IsWord(c) == IsAlpha(c) \/ IsDigit(c) \/ c = "_"

\* str.lower() of one character
Lower(c) == IF c \in Range(UpperLetters) THEN LowerLetters[IndexOf(UpperLetters, c)]
            ELSE IF c = "u037f" THEN "u03f3"
            ELSE c

\* str.upper() of one character
Upper(c) == IF c \in Range(LowerLetters) THEN UpperLetters[IndexOf(LowerLetters, c)]
            ELSE IF c = "u03f3" THEN "u037f"
            ELSE c

LowerStr(s) == [k \in DOMAIN s |-> Lower(s[k])]

\* str.startswith(prefix)
StartsWith(s, prefix) ==
    /\ Len(s) >= Len(prefix)
    /\ \A k \in 1..Len(prefix) : s[k] = prefix[k]

\* str.endswith(c) for a one-character suffix
EndsWith(s, c) == Len(s) >= 1 /\ s[Len(s)] = c

\* `sub in s`
Contains(s, sub) ==
    \E k \in 0..(Len(s) - Len(sub)) : \A m \in 1..Len(sub) : s[k + m] = sub[m]

RECURSIVE LStrip(_)
LStrip(s) == IF s # <<>> /\ IsSpace(Head(s)) THEN LStrip(Tail(s)) ELSE s

RECURSIVE RStrip(_)
RStrip(s) == IF s # <<>> /\ IsSpace(s[Len(s)])
             THEN RStrip(SubSeq(s, 1, Len(s) - 1)) ELSE s

\* str.strip()
Strip(s) == RStrip(LStrip(s))

\* str.split(sep) for a one-character separator
RECURSIVE SplitFrom(_, _, _, _)
SplitFrom(s, sep, k, cur) ==
    IF k > Len(s) THEN <<cur>>
    ELSE IF s[k] = sep THEN <<cur>> \o SplitFrom(s, sep, k + 1, <<>>)
    ELSE SplitFrom(s, sep, k + 1, Append(cur, s[k]))

Split(s, sep) == SplitFrom(s, sep, 1, <<>>)

\* sep.join(parts)
RECURSIVE JoinWith(_, _)
JoinWith(parts, sep) ==
    IF parts = <<>> THEN <<>>
    ELSE IF Len(parts) = 1 THEN parts[1]
    ELSE parts[1] \o <<sep>> \o JoinWith(Tail(parts), sep)

\* list.insert(idx, x) with a 0-based index
InsertAt(s, idx, x) ==
    IF idx >= Len(s) THEN Append(s, x)
    ELSE SubSeq(s, 1, idx) \o <<x>> \o SubSeq(s, idx + 1, Len(s))

\* list.remove(x): the first occurrence goes
RemoveFirst(s, x) ==
    LET k == CHOOSE n \in DOMAIN s : s[n] = x /\ \A m \in 1..(n - 1) : s[m] # x
    IN  SubSeq(s, 1, k - 1) \o SubSeq(s, k + 1, Len(s))

\* int(s) for a string of decimal digits
RECURSIVE ParseInt(_)
ParseInt(s) == IF s = <<>> THEN 0
               ELSE 10 * ParseInt(SubSeq(s, 1, Len(s) - 1)) + DigitVal(s[Len(s)])

\* str(n) for n >= 0
RECURSIVE Str(_)
Str(n) == IF n < 10 THEN <<Digits[n + 1]>>
          ELSE Str(n \div 10) \o <<Digits[(n % 10) + 1]>>

(***************************************************************************)
(* The character tables of __init__                                        *)
(***************************************************************************)
DefaultCharSubstitutions ==
    [c \in Range(SubstKeys) |-> SubstGlyphs[IndexOf(SubstKeys, c)]]

DefaultInsertionChars ==
    <<"u00ad", "u034f", "u0378", "u0379", "u037f", "u0380", "u0381", "u0382",
      "u0383", "u038b", "u038d", "u03a2", "u0530", "u0557", "u0558", "u058b",
      "u058c">>

DefaultOptionChars == <<"-", "/", "ufe63">>

DefaultWindowsPrograms ==
    <<"taskkill", "reg", "powershell", "certutil", "mshta", "msiexec", "ping",
      "curl", "cmd", "wmic", "bitsadmin", "sc", "wscript", "cscript",
      "regsvr32", "rundll32">>

DefaultUnixPrograms ==
    <<"curl", "wget", "bash", "sh", "osascript", "python", "perl", "nc",
      "ncat", "ssh", "scp", "rsync">>

\* the keys of self.modifiers, in declaration order
Modifiers ==
    <<"CharacterSubstitution", "RandomCase", "OptionCharacterSubstitution",
      "CharacterInsertion", "QuoteInsertion", "PathTraversal",
      "ValueTransformation", "OptionReordering", "OptionSeparatorInsertion",
      "OptionSeparatorDeletion">>

(***************************************************************************)
(* _tokenize_command                                                       *)
(***************************************************************************)
\* IsBoundary without the test of the quote state
IsBoundaryMutant(char, q) == IsSpace(char)

\* line 108: whitespace ends a token only outside quotes
IsBoundary(char, q) == IsSpace(char) /\ q = None

\* the scanning loop: k is the position, q the quote_char (None outside
\* quotes), toks the tokens so far, cur the current_token
RECURSIVE ScanTokens(_, _, _, _, _)
ScanTokens(cmd, k, q, toks, cur) ==
    IF k > Len(cmd)
    THEN IF cur # <<>> THEN Append(toks, cur) ELSE toks
    ELSE LET char == cmd[k] IN
         IF char \in {"\"", "'"}
         THEN IF q = None
              THEN ScanTokens(cmd, k + 1, char, toks, Append(cur, char))
              ELSE IF char = q
              THEN ScanTokens(cmd, k + 1, None, toks, Append(cur, char))
              ELSE ScanTokens(cmd, k + 1, q, toks, Append(cur, char))
         ELSE IF IsBoundary(char, q)
         THEN IF cur # <<>>
              THEN ScanTokens(cmd, k + 1, q, Append(toks, cur), <<>>)
              ELSE ScanTokens(cmd, k + 1, q, toks, cur)
         ELSE ScanTokens(cmd, k + 1, q, toks, Append(cur, char))

HKLM == <<"H", "K", "L", "M", "\\">>
HKCU == <<"H", "K", "C", "U", "\\">>

\* the classification of the token at 1-based index n
ClassifyToken(n, token) ==
    IF n = 1 THEN "command"
    ELSE IF StartsWith(token, <<"-">>) \/ StartsWith(token, <<"/">>) THEN "argument"
    ELSE IF /\ Contains(token, <<":">>)
            /\ \/ Contains(LowerStr(token), <<"h", "t", "t", "p">>)
               \/ Contains(LowerStr(token), <<"h", "t", "t", "p", "s">>)
         THEN "url"
    ELSE IF Contains(token, <<"\\">>) \/ Contains(token, <<"/">>) THEN "file_path"
    ELSE IF StartsWith(token, HKLM) \/ StartsWith(token, HKCU) THEN "reg_path"
    ELSE "argument"

TokenizeCommand(cmd) ==
    LET toks == ScanTokens(cmd, 1, None, <<>>, <<>>)
    IN  [n \in 1..Len(toks) |-> [type |-> ClassifyToken(n, toks[n]), value |-> toks[n]]]

(***************************************************************************)
(* Randomness                                                              *)
(***************************************************************************)
\* the values of random.random() the model draws, in hundredths
Draws == {0, 35, 99}

\* at most this many per-character draws of one CharacterInsertion or
\* QuoteInsertion invocation come out below the probability
MaxFires == 1

\* the gate `if random.random() > probability: return`
GatePasses(d, p) == ~(d > p)

GateCanPass(p) == \E d \in Draws : GatePasses(d, p)
GateCanFail(p) == \E d \in Draws : ~GatePasses(d, p)

\* the sets of positions of P whose independent draw can come out `< p`
FireSets(P, p) ==
    {F \in SUBSET P : /\ F # {} => \E d \in Draws : d < p
                      /\ F # P  => \E d \in Draws : ~(d < p)}

BoundedFireSets(P, p) == {F \in FireSets(P, p) : Cardinality(F) <= MaxFires}

\* the outcomes of a technique whose body yields the outcomes `body`
Gated(x, p, body) ==
    (IF GateCanFail(p) THEN {x} ELSE {}) \cup (IF GateCanPass(p) THEN body ELSE {})

(***************************************************************************)
(* The per-token techniques.  Each yields the set of tokens it can return, *)
(* one per outcome of its random draws.                                    *)
(***************************************************************************)
SubstitutedValue(value, subs, F) ==
    [k \in DOMAIN value |->
        IF k \in F THEN subs[Lower(value[k])] ELSE value[k]]

ApplyCharacterSubstitution(token, p, subs) ==
    Gated(token, p,
        IF token.type \notin {"argument", "command"} THEN {token}
        ELSE LET P == {k \in DOMAIN token.value : Lower(token.value[k]) \in DOMAIN subs}
             IN  {[token EXCEPT !.value = SubstitutedValue(token.value, subs, F)] :
                     F \in FireSets(P, p)})

RandomCaseValue(value, U) ==
    [k \in DOMAIN value |->
        IF IsAlpha(value[k])
        THEN IF k \in U THEN Upper(value[k]) ELSE Lower(value[k])
        ELSE value[k]]

ApplyRandomCase(token, p) ==
    Gated(token, p,
        IF token.type \notin {"argument", "command", "file_path"} THEN {token}
        ELSE LET P == {k \in DOMAIN token.value : IsAlpha(token.value[k])}
             IN  {[token EXCEPT !.value = RandomCaseValue(token.value, U)] :
                     U \in FireSets(P, 50)})

ApplyOptionCharacterSubstitution(token, p, optchars) ==
    Gated(token, p,
        IF \/ token.type # "argument"
           \/ ~(StartsWith(token.value, <<"-">>) \/ StartsWith(token.value, <<"/">>))
        THEN {token}
        ELSE LET current_option == token.value[1]
                 available_options == {c \in Range(optchars) : c # current_option}
             IN  IF available_options = {} THEN {token}
                 ELSE {[token EXCEPT !.value = <<new_option>> \o Tail(token.value)] :
                          new_option \in available_options})

\* the loop of _apply_character_insertion: ch[k] is the character chosen
\* after position k, for the positions of F
RECURSIVE InsertedValue(_, _, _, _)
InsertedValue(value, k, F, ch) ==
    IF k > Len(value) THEN <<>>
    ELSE <<value[k]>> \o (IF k \in F THEN <<ch[k]>> ELSE <<>>)
                      \o InsertedValue(value, k + 1, F, ch)

ApplyCharacterInsertion(token, p, inschars) ==
    Gated(token, p,
        IF token.type \notin {"argument"} THEN {token}
        ELSE {[token EXCEPT !.value = InsertedValue(token.value, 1, fc[1], fc[2])] :
                 fc \in UNION {{<<F, ch>> : ch \in [F -> Range(inschars)]} :
                                  F \in BoundedFireSets(DOMAIN token.value, p)}})

RECURSIVE QuotedValue(_, _, _)
QuotedValue(value, k, F) ==
    IF k > Len(value) THEN <<>>
    ELSE (IF k \in F /\ value[k] \notin {"\"", "'"}
          THEN <<"\"", value[k], "\"">>
          ELSE <<value[k]>>) \o QuotedValue(value, k + 1, F)

ApplyQuoteInsertion(token, p) ==
    Gated(token, p,
        IF token.type \notin {"argument", "file_path", "url"} THEN {token}
        ELSE IF \/ StartsWith(token.value, <<"\"">>) /\ EndsWith(token.value, "\"")
                \/ StartsWith(token.value, <<"'">>) /\ EndsWith(token.value, "'")
        THEN {token}
        ELSE {[token EXCEPT !.value = QuotedValue(token.value, 1, F)] :
                 F \in BoundedFireSets(DOMAIN token.value, p)})

\* the loop `for i in range(1, len(parts)-1)`: idx is the 0-based i, stop
\* the bound computed before the loop, F the indices whose draw fires
RECURSIVE TraversedParts(_, _, _, _)
TraversedParts(parts, idx, stop, F) ==
    IF idx >= stop THEN parts
    ELSE IF idx \in F
    THEN LET p1 == InsertAt(parts, idx, <<".", ".">>)
             p2 == InsertAt(p1, idx + 1, p1[(idx - 1) + 1])
         IN  TraversedParts(p2, idx + 1, stop, F)
    ELSE TraversedParts(parts, idx + 1, stop, F)

PathSeparator(value) ==
    IF Contains(value, <<"\\">>) THEN "\\"
    ELSE IF Contains(value, <<"/">>) THEN "/"
    ELSE None

ApplyPathTraversal(token, p) ==
    Gated(token, p,
        IF token.type # "file_path" THEN {token}
        ELSE LET sep == PathSeparator(token.value) IN
             IF sep = None THEN {token}
             ELSE LET parts == Split(token.value, sep) IN
                  IF Len(parts) > 2
                  THEN {[token EXCEPT !.value =
                            JoinWith(TraversedParts(parts, 1, Len(parts) - 1, F), sep)] :
                           F \in FireSets(1..(Len(parts) - 2), p)}
                  ELSE {[token EXCEPT !.value = JoinWith(parts, sep)]})

\* re.match(r'^\d{1,3}\.\d{1,3}\.\d{1,3}\.\d{1,3}$', value)
MatchesDottedQuad(value) ==
    LET parts == Split(value, ".")
    IN  /\ Len(parts) = 4
        /\ \A n \in 1..4 : /\ Len(parts[n]) \in 1..3
                           /\ \A k \in DOMAIN parts[n] : IsDigit(parts[n][k])

\* (int(parts[0]) << 24) + (int(parts[1]) << 16) + (int(parts[2]) << 8) + int(parts[3])
\* A Python int has no width and the sum passes 2^31, so it is kept exactly
\* as high * 10^4 + low with 0 <= low < 10^4:
\* 2^24 = 1677 * 10^4 + 7216 and 2^16 = 6 * 10^4 + 5536
DecimalIp(value) ==
    LET parts == Split(value, ".")
        o1 == ParseInt(parts[1])
        o2 == ParseInt(parts[2])
        o3 == ParseInt(parts[3])
        o4 == ParseInt(parts[4])
        units == o1 * 7216 + o2 * 5536 + o3 * 256 + o4
    IN  [high |-> o1 * 1677 + o2 * 6 + units \div 10000, low |-> units % 10000]

\* str(n) for n = high * 10^4 + low
StrBig(n) ==
    IF n.high = 0 THEN Str(n.low)
    ELSE Str(n.high) \o <<Digits[(n.low \div 1000) + 1],
                           Digits[((n.low \div 100) % 10) + 1],
                           Digits[((n.low \div 10) % 10) + 1],
                           Digits[(n.low % 10) + 1]>>

ApplyValueTransformation(token, p) ==
    Gated(token, p,
        IF token.type = "argument" /\ MatchesDottedQuad(token.value)
        THEN {[token EXCEPT !.value = StrBig(DecimalIp(token.value))]}
        ELSE {token})

\* the span a greedy `-+` takes from position k
RECURSIVE DashRun(_, _)
DashRun(value, k) ==
    IF k <= Len(value) /\ value[k] = "-" THEN 1 + DashRun(value, k + 1) ELSE 0

\* the span a greedy `\w+` takes from position k
RECURSIVE WordRun(_, _)
WordRun(value, k) ==
    IF k <= Len(value) /\ IsWord(value[k]) THEN 1 + WordRun(value, k + 1) ELSE 0

SeparatedValue(value) ==
    LET d == DashRun(value, 1)
        w == WordRun(value, d + 1)
        rest == SubSeq(value, d + w + 1, Len(value))
        \* ^(-+)(\w+)(-)$
        match1 == d >= 1 /\ w >= 1 /\ rest = <<"-">>
        \* ^(-+)(\w+)(=)(.+)$
        match2 == d >= 1 /\ w >= 1 /\ Len(rest) >= 2 /\ rest[1] = "="
    IN  IF match1 \/ match2
        THEN SubSeq(value, 1, d + w) \o <<" ">> \o rest
        ELSE value

ApplyOptionSeparatorInsertion(token, p) ==
    Gated(token, p,
        IF token.type # "argument" THEN {token}
        ELSE {[token EXCEPT !.value = SeparatedValue(token.value)]})

\* the per-token _apply_option_separator_deletion returns its token on
\* every path
ApplyOptionSeparatorDeletion(token, p) ==
    Gated(token, p, {token})

(***************************************************************************)
(* The whole-sequence techniques                                           *)
(***************************************************************************)
IsOptionToken(token) ==
    /\ token.type = "argument"
    /\ StartsWith(token.value, <<"-">>) \/ StartsWith(token.value, <<"/">>)

\* sorted(S) for a set of integers
RECURSIVE Sorted(_)
Sorted(S) ==
    IF S = {} THEN <<>>
    ELSE LET m == CHOOSE x \in S : \A y \in S : x <= y
         IN  <<m>> \o Sorted(S \ {m})

\* the outcomes of random.shuffle on a list of n elements: order[k] is the
\* old position of the element that ends at position k
Shuffles(n) == {f \in [1..n -> 1..n] : \A a, b \in 1..n : f[a] = f[b] => a = b}

\* ShuffledTokens writing at new_idx instead of old_idx
ShuffledTokensMutant(toks, sample, order) ==
    LET idx == Sorted(sample)
        tokens_to_shuffle == [k \in 1..Len(idx) |-> toks[idx[order[k]]]]
    IN  [n \in DOMAIN toks |->
            IF n <= Len(idx) THEN tokens_to_shuffle[n] ELSE toks[n]]

\* lines 305-310: the tokens at the sampled indices are put back, in the
\* shuffled order, at the sampled indices in ascending order
ShuffledTokens(toks, sample, order) ==
    LET idx == Sorted(sample)
        tokens_to_shuffle == [k \in 1..Len(idx) |-> toks[idx[order[k]]]]
    IN  [n \in DOMAIN toks |->
            IF n \in sample
            THEN tokens_to_shuffle[CHOOSE k \in 1..Len(idx) : idx[k] = n]
            ELSE toks[n]]

ApplyOptionReordering(toks, p) ==
    Gated(toks, p,
        LET option_indices == {n \in DOMAIN toks : IsOptionToken(toks[n])}
        IN  IF Cardinality(option_indices) < 2 THEN {toks}
            ELSE UNION {{ShuffledTokens(toks, sample, order) :
                            order \in Shuffles(Cardinality(sample))} :
                        sample \in (SUBSET option_indices) \ {{}}})

\* the test of lines 355-358 on a token and the one after it
CanCombine(current, next_token) ==
    /\ current.type = "argument"
    /\ StartsWith(current.value, <<"-">>) \/ StartsWith(current.value, <<"/">>)
    /\ ~(EndsWith(current.value, "=") \/ EndsWith(current.value, ":"))
    /\ next_token.type \in {"argument", "file_path", "url"}

\* the while loop of _handle_option_separator_deletion and the append that
\* follows it: k is i + 1, F the positions whose draw comes out `< p`
RECURSIVE CombinedTokens(_, _, _, _)
CombinedTokens(toks, k, res, F) ==
    IF k < Len(toks)
    THEN IF CanCombine(toks[k], toks[k + 1]) /\ k \in F
         THEN CombinedTokens(toks, k + 2,
                  Append(res, [toks[k] EXCEPT !.value = toks[k].value \o toks[k + 1].value]),
                  F)
         ELSE CombinedTokens(toks, k + 1, Append(res, toks[k]), F)
    ELSE IF k <= Len(toks) THEN Append(res, toks[k])
    ELSE res

HandleOptionSeparatorDeletion(toks, p) ==
    Gated(toks, p,
        {CombinedTokens(toks, 1, <<>>, F) :
            F \in FireSets({k \in 1..(Len(toks) - 1) : CanCombine(toks[k], toks[k + 1])}, p)})

(***************************************************************************)
(* obfuscate_command and the loop of main()                                *)
(***************************************************************************)
\* default_probs, lines 392-403
DefaultProbs ==
    [t \in Range(Modifiers) |->
        CASE t = "CharacterSubstitution" -> 30
          [] t = "RandomCase" -> 50
          [] t = "OptionCharacterSubstitution" -> 40
          [] t = "CharacterInsertion" -> 30
          [] t = "QuoteInsertion" -> 30
          [] t = "PathTraversal" -> 40
          [] t = "ValueTransformation" -> 30
          [] t = "OptionReordering" -> 40
          [] t = "OptionSeparatorInsertion" -> 30
          [] t = "OptionSeparatorDeletion" -> 30]

\* dict.update
Updated(d, e) ==
    [k \in (DOMAIN d) \cup (DOMAIN e) |-> IF k \in DOMAIN e THEN e[k] ELSE d[k]]

\* probs, lines 405-407: None and the empty map are both falsy, and
\* updating with the empty map changes nothing
EffectiveProbs(overrides) ==
    IF DOMAIN overrides = {} THEN DefaultProbs ELSE Updated(DefaultProbs, overrides)

\* `not techniques`, line 410: None and the empty list are both falsy, and
\* no other line tells them apart
Falsy(list) == list = <<>>

\* what a per-token call of _apply_option_reordering yields: the argument
\* is a token (a dict), iterating it yields its keys, and token["type"] on
\* a key raises TypeError
RaisedTypeError == [type |-> "TypeError", value |-> <<>>]

ApplyOptionReorderingToToken(token, p) ==
    Gated(token, p, {RaisedTypeError})

\* self.modifiers[technique](token, probs[technique])
Dispatch(technique, token, p) ==
    CASE technique = "CharacterSubstitution" ->
             ApplyCharacterSubstitution(token, p, char_substitutions)
      [] technique = "RandomCase" -> ApplyRandomCase(token, p)
      [] technique = "OptionCharacterSubstitution" ->
             ApplyOptionCharacterSubstitution(token, p, option_chars)
      [] technique = "CharacterInsertion" ->
             ApplyCharacterInsertion(token, p, insertion_chars)
      [] technique = "QuoteInsertion" -> ApplyQuoteInsertion(token, p)
      [] technique = "PathTraversal" -> ApplyPathTraversal(token, p)
      [] technique = "ValueTransformation" -> ApplyValueTransformation(token, p)
      [] technique = "OptionReordering" -> ApplyOptionReorderingToToken(token, p)
      [] technique = "OptionSeparatorInsertion" ->
             ApplyOptionSeparatorInsertion(token, p)
      [] technique = "OptionSeparatorDeletion" ->
             ApplyOptionSeparatorDeletion(token, p)

\* lines 429-433
RECURSIVE Concatenated(_)
Concatenated(toks) ==
    IF toks = <<>> THEN <<>>
    ELSE toks[1].value \o <<" ">> \o Concatenated(Tail(toks))

Rebuilt(toks) == Strip(Concatenated(toks))

NoInvocation == [op |-> None, at |-> 0]

Tables == <<char_substitutions, insertion_chars, option_chars,
            windows_programs, unix_programs>>
Caller == <<command, probabilities, output, config_file, config_error>>

\* main() line 463 and obfuscate_command lines 389-411
CallObfuscate ==
    /\ pc = "main"
    /\ i < output
    /\ tokens' = TokenizeCommand(command)
    /\ probs' = EffectiveProbs(probabilities)
    /\ techniques' = IF Falsy(args_techniques) THEN Modifiers ELSE args_techniques
    /\ aliased' = ~Falsy(args_techniques)
    /\ effective' = Append(effective, techniques')
    /\ result' = <<>>
    /\ before' = <<>>
    /\ last' = NoInvocation
    /\ pc' = "reorder"
    /\ UNCHANGED <<args_techniques, i, ti, tj, Caller, Tables>>

\* techniques.remove(name): the caller's list is the same object when the
\* caller passed a non-empty list
RemoveTechnique(name) ==
    /\ techniques' = RemoveFirst(techniques, name)
    /\ args_techniques' = IF aliased THEN techniques' ELSE args_techniques

\* lines 414-416
SeqOptionReordering ==
    /\ pc = "reorder"
    /\ IF "OptionReordering" \in Range(techniques)
       THEN /\ \E toks \in ApplyOptionReordering(tokens, probs["OptionReordering"]) :
                  tokens' = toks
            /\ RemoveTechnique("OptionReordering")
            /\ before' = tokens
            /\ last' = [op |-> "OptionReordering", at |-> 0]
       ELSE /\ UNCHANGED <<tokens, techniques, args_techniques>>
            /\ before' = <<>>
            /\ last' = NoInvocation
    /\ pc' = "sepdel"
    /\ UNCHANGED <<i, aliased, probs, ti, tj, result, effective, Caller, Tables>>

\* lines 418-420
SeqOptionSeparatorDeletion ==
    /\ pc = "sepdel"
    /\ IF "OptionSeparatorDeletion" \in Range(techniques)
       THEN /\ \E toks \in HandleOptionSeparatorDeletion(tokens,
                               probs["OptionSeparatorDeletion"]) :
                  tokens' = toks
            /\ RemoveTechnique("OptionSeparatorDeletion")
            /\ last' = [op |-> "OptionSeparatorDeletion", at |-> 0]
       ELSE /\ UNCHANGED <<tokens, techniques, args_techniques>>
            /\ last' = NoInvocation
    /\ before' = <<>>
    /\ ti' = 1
    /\ tj' = 1
    /\ pc' = "loop"
    /\ UNCHANGED <<i, aliased, probs, result, effective, Caller, Tables>>

InLoop ==
    /\ pc = "loop"
    /\ ti <= Len(tokens)
    /\ tj <= Len(techniques)

\* the next iteration of the nested loops of lines 423-424
NextIteration ==
    IF tj < Len(techniques)
    THEN ti' = ti /\ tj' = tj + 1
    ELSE ti' = ti + 1 /\ tj' = 1

\* lines 425-426 for a technique of self.modifiers
TokenStep(name) ==
    /\ InLoop
    /\ techniques[tj] = name
    /\ \E o \in Dispatch(name, tokens[ti], probs[name]) :
          IF o = RaisedTypeError
          THEN /\ pc' = "raised"
               /\ UNCHANGED <<tokens, ti, tj>>
          ELSE /\ pc' = "loop"
               /\ tokens' = [tokens EXCEPT ![ti] = o]
               /\ NextIteration
    /\ before' = IF name \in {"PathTraversal", "ValueTransformation"}
                 THEN <<tokens[ti]>> ELSE <<>>
    /\ last' = [op |-> name, at |-> ti]
    /\ UNCHANGED <<args_techniques, i, techniques, aliased, probs, result,
                   effective, Caller, Tables>>

StepCharacterSubstitution == TokenStep("CharacterSubstitution")
StepRandomCase == TokenStep("RandomCase")
StepOptionCharacterSubstitution == TokenStep("OptionCharacterSubstitution")
StepCharacterInsertion == TokenStep("CharacterInsertion")
StepQuoteInsertion == TokenStep("QuoteInsertion")
StepPathTraversal == TokenStep("PathTraversal")
StepValueTransformation == TokenStep("ValueTransformation")
StepOptionReordering == TokenStep("OptionReordering")
StepOptionSeparatorInsertion == TokenStep("OptionSeparatorInsertion")
StepOptionSeparatorDeletion == TokenStep("OptionSeparatorDeletion")

\* line 425 for a name that is not a key of self.modifiers
StepUnknownTechnique ==
    /\ InLoop
    /\ techniques[tj] \notin Range(Modifiers)
    /\ NextIteration
    /\ before' = <<>>
    /\ last' = NoInvocation
    /\ UNCHANGED <<pc, args_techniques, i, tokens, techniques, aliased, probs,
                   result, effective, Caller, Tables>>

\* lines 429-433, and main() lines 462-464
RebuildCommand ==
    /\ pc = "loop"
    /\ ti > Len(tokens) \/ Len(techniques) = 0
    /\ result' = Rebuilt(tokens)
    /\ i' = i + 1
    /\ pc' = "main"
    /\ before' = <<>>
    /\ last' = NoInvocation
    /\ UNCHANGED <<args_techniques, tokens, techniques, aliased, probs, ti, tj,
                   effective, Caller, Tables>>

\* the loop of line 462 is over
MainReturns ==
    /\ pc = "main"
    /\ i = output
    /\ pc' = "exit"
    /\ UNCHANGED <<command, args_techniques, probabilities, output, i, tokens,
                   techniques, aliased, probs, ti, tj, result, effective, before,
                   last, config_file, config_error, Tables>>

(***************************************************************************)
(* _load_config                                                            *)
(***************************************************************************)
\* a value of the configuration document: absent, of the shape the loader
\* expects (a dict for char_substitutions, a list for the others), or a
\* JSON number
Absent == [kind |-> "absent", items |-> <<>>]
JsonNumber == [kind |-> "number", items |-> <<>>]
JsonDict(pairs) == [kind |-> "dict", items |-> pairs]
JsonList(elems) == [kind |-> "list", items |-> elems]

ConfigKeys == {"char_substitutions", "insertion_chars", "option_chars",
               "windows_programs", "unix_programs"}

NoDocument == [k \in ConfigKeys |-> Absent]

\* config_file: None, a path open() fails on, a file json.load() fails on,
\* a file holding a JSON number, or a file holding a JSON object
NoConfig == [status |-> "none", config |-> NoDocument]

\* dict.update(value): a dict merges, a number raises TypeError
DictUpdate(d, value) ==
    IF value.kind = "dict"
    THEN [raised |-> FALSE,
          to |-> [k \in (DOMAIN d) \cup {pr[1] : pr \in Range(value.items)} |->
                     IF \E pr \in Range(value.items) : pr[1] = k
                     THEN (CHOOSE pr \in Range(value.items) : pr[1] = k)[2]
                     ELSE d[k]]]
    ELSE [raised |-> TRUE, to |-> d]

\* list.extend(value): a list is appended, a number raises TypeError
ListExtend(l, value) ==
    IF value.kind = "list"
    THEN [raised |-> FALSE, to |-> l \o value.items]
    ELSE [raised |-> TRUE, to |-> l]

\* the tables after the try block of lines 66-83 on document cfg, statement
\* by statement: a statement that raises ends the block and keeps what the
\* statements before it did
LoadedTables(cfg, cs, ic, oc, wp, up) ==
    LET s1 == IF cfg["char_substitutions"].kind = "absent"
              THEN [raised |-> FALSE, to |-> cs]
              ELSE DictUpdate(cs, cfg["char_substitutions"])
        s2 == IF s1.raised \/ cfg["insertion_chars"].kind = "absent"
              THEN [raised |-> s1.raised, to |-> ic]
              ELSE ListExtend(ic, cfg["insertion_chars"])
        s3 == IF s2.raised \/ cfg["option_chars"].kind = "absent"
              THEN [raised |-> s2.raised, to |-> oc]
              ELSE [raised |-> FALSE, to |-> cfg["option_chars"].items]
        s4 == IF s3.raised \/ cfg["windows_programs"].kind = "absent"
              THEN [raised |-> s3.raised, to |-> wp]
              ELSE ListExtend(wp, cfg["windows_programs"])
        s5 == IF s4.raised \/ cfg["unix_programs"].kind = "absent"
              THEN [raised |-> s4.raised, to |-> up]
              ELSE ListExtend(up, cfg["unix_programs"])
    IN  [raised |-> s5.raised, cs |-> s1.to, ic |-> s2.to, oc |-> s3.to,
         wp |-> s4.to, up |-> s5.to]

\* __init__ lines 60-62 and _load_config: open() or json.load() raising, or
\* `"char_substitutions" in config` raising on a number, leaves the tables
\* as they are; the except clause prints and returns
Construct ==
    /\ pc = "init"
    /\ IF config_file.status = "none"
       THEN UNCHANGED <<Tables, config_error>>
       ELSE IF config_file.status \in {"unreadable", "invalid_json", "number"}
       THEN /\ config_error' = TRUE
            /\ UNCHANGED Tables
       ELSE LET r == LoadedTables(config_file.config, char_substitutions,
                                  insertion_chars, option_chars,
                                  windows_programs, unix_programs)
            IN  /\ char_substitutions' = r.cs
                /\ insertion_chars' = r.ic
                /\ option_chars' = r.oc
                /\ windows_programs' = r.wp
                /\ unix_programs' = r.up
                /\ config_error' = r.raised
    /\ pc' = "constructed"
    /\ UNCHANGED <<command, args_techniques, probabilities, output, i, tokens,
                   techniques, aliased, probs, ti, tj, result, effective, before,
                   last, config_file>>

(***************************************************************************)
(* Inputs                                                                  *)
(***************************************************************************)
\* the requested number of variants goes up to this
MaxOutput == 2

C_empty == <<>>
C_tiny == <<"c", " ", "-", "a">>
C_opts == <<"c", " ", "-", "a", " ", "/", "b", " ", "x">>
C_ping == <<"p", "i", "n", "g", " ", "-", "n", " ", "1", " ",
            "1", "9", "2", ".", "1", "6", "8", ".", "1", ".", "1">>
C_bad == <<"p", " ", "9", "9", "9", ".", "1", ".", "1", ".", "1">>
C_path == <<"c", "a", "t", " ", "a", "/", "b", "/", "c", "/", "d">>
C_reg == <<"r", "e", "g", " ", "H", "K", "L", "M", "\\", "S">>
C_sep == <<"c", " ", "-", "-", "o", "=", "f", " ", "-", "O", "-">>
C_quote == <<"x", " ", "\"", "a", " ">>

TinyCommands == {C_empty, C_tiny}
Commands == TinyCommands \cup {C_opts, C_ping, C_bad, C_path, C_reg, C_sep, C_quote}

ZeroProbs == [t \in Range(Modifiers) |-> 0]
ValueTransformationOne == [t \in {"ValueTransformation"} |-> 100]
ProbMaps == {<<>>, ZeroProbs, ValueTransformationOne,
             [t \in {"Bogus"} |-> 50]}

\* lists whose techniques leave short tokens
LightLists == {<<"RandomCase">>, <<"OptionCharacterSubstitution">>,
               <<"PathTraversal">>, <<"ValueTransformation">>,
               <<"OptionSeparatorInsertion">>, <<"Bogus">>,
               <<"Bogus", "ValueTransformation">>}
\* lists of whole-sequence techniques only
SeqLists == {<<"OptionReordering">>, <<"OptionSeparatorDeletion">>,
             <<"OptionReordering", "OptionSeparatorDeletion">>}
TechniqueLists == LightLists \cup SeqLists \cup
    {<<>>, <<"CharacterSubstitution">>, <<"CharacterInsertion">>,
     <<"QuoteInsertion">>, <<"OptionReordering", "OptionReordering">>,
     <<"OptionSeparatorDeletion", "OptionSeparatorDeletion">>}

\* the calls the model makes: every list and every map on the tiny
\* commands and under zero probabilities, the light lists on every command,
\* the whole-sequence lists on every command for a single variant
Scenarios ==
    (TinyCommands \X TechniqueLists \X ProbMaps \X (1..MaxOutput))
    \cup (Commands \X TechniqueLists \X {ZeroProbs} \X (1..MaxOutput))
    \cup (Commands \X LightLists \X ProbMaps \X (1..MaxOutput))
    \cup (Commands \X SeqLists \X ProbMaps \X {1})

\* main() after line 459, with the obfuscator constructed without --config
InitCall(cmd, techs, pr, out) ==
    /\ pc = "main"
    /\ command = cmd
    /\ args_techniques = techs
    /\ probabilities = pr
    /\ output = out
    /\ i = 0
    /\ tokens = <<>>
    /\ techniques = <<>>
    /\ aliased = FALSE
    /\ probs = DefaultProbs
    /\ ti = 1
    /\ tj = 1
    /\ result = <<>>
    /\ effective = <<>>
    /\ before = <<>>
    /\ last = NoInvocation
    /\ config_file = NoConfig
    /\ char_substitutions = DefaultCharSubstitutions
    /\ insertion_chars = DefaultInsertionChars
    /\ option_chars = DefaultOptionChars
    /\ windows_programs = DefaultWindowsPrograms
    /\ unix_programs = DefaultUnixPrograms
    /\ config_error = FALSE

Init == \E s \in Scenarios : InitCall(s[1], s[2], s[3], s[4])

Next ==
    \/ CallObfuscate
    \/ SeqOptionReordering
    \/ SeqOptionSeparatorDeletion
    \/ StepCharacterSubstitution
    \/ StepRandomCase
    \/ StepOptionCharacterSubstitution
    \/ StepCharacterInsertion
    \/ StepQuoteInsertion
    \/ StepPathTraversal
    \/ StepValueTransformation
    \/ StepOptionReordering
    \/ StepOptionSeparatorInsertion
    \/ StepOptionSeparatorDeletion
    \/ StepUnknownTechnique
    \/ RebuildCommand
    \/ MainReturns

Spec == Init /\ [][Next]_vars

(***************************************************************************)
(* The tokenizer alone, on every string over a small alphabet              *)
(***************************************************************************)
\* the tokenizer's inputs have at most this many characters
MaxTokLen == 4

TokAlphabet == {"a", " ", "\t", "\"", "'"}

C_regcu == <<"r", " ", "H", "K", "C", "U", "\\", "x", " ", "/", "y">>

TokInputs == UNION {[1..n -> TokAlphabet] : n \in 0..MaxTokLen}
             \cup {C_reg, C_regcu, C_path, C_ping}

InitTok == \E cmd \in TokInputs : InitCall(cmd, <<>>, <<>>, 1)

NextTok == CallObfuscate

SpecTok == InitTok /\ [][NextTok]_vars

(***************************************************************************)
(* OptionReordering alone, on commands made of a few words                 *)
(***************************************************************************)
\* the commands given to OptionReordering have at most this many arguments
MaxWords == 3

ReorderWords == {<<"-", "a">>, <<"/", "b">>, <<"x">>, <<"p", "/", "q">>}

RECURSIVE CommandOf(_)
CommandOf(words) ==
    IF words = <<>> THEN <<"c">>
    ELSE CommandOf(SubSeq(words, 1, Len(words) - 1)) \o <<" ">> \o words[Len(words)]

ReorderInputs == {CommandOf(ws) : ws \in UNION {[1..n -> ReorderWords] : n \in 0..MaxWords}}

InitReorder ==
    \E cmd \in ReorderInputs, pr \in {<<>>, ZeroProbs} :
        InitCall(cmd, <<"OptionReordering">>, pr, 1)

NextReorder == CallObfuscate \/ SeqOptionReordering

SpecReorder == InitReorder /\ [][NextReorder]_vars

(***************************************************************************)
(* The construction of the obfuscator with a configuration document        *)
(***************************************************************************)
GoodValue(key) ==
    CASE key = "char_substitutions" -> JsonDict(<<<<"a", "@">>, <<"i", "!">>>>)
      [] key = "insertion_chars" -> JsonList(<<"u200b">>)
      [] key = "option_chars" -> JsonList(<<"-", "+">>)
      [] key = "windows_programs" -> JsonList(<<"net">>)
      [] key = "unix_programs" -> JsonList(<<"awk">>)

\* option_chars is assigned, never iterated: no value of it makes the load fail
ValuesOf(key) ==
    IF key = "option_chars" THEN {Absent, GoodValue(key)}
    ELSE {Absent, GoodValue(key), JsonNumber}

Documents == {d \in [ConfigKeys -> {Absent, JsonNumber} \cup {GoodValue(k) : k \in ConfigKeys}] :
                 \A k \in ConfigKeys : d[k] \in ValuesOf(k)}

ConfigFiles ==
    {[status |-> st, config |-> NoDocument] :
        st \in {"none", "unreadable", "invalid_json", "number"}}
    \cup {[status |-> "object", config |-> d] : d \in Documents}

InitCfg ==
    \E f \in ConfigFiles :
        /\ pc = "init"
        /\ config_file = f
        /\ command = <<>>
        /\ args_techniques = <<>>
        /\ probabilities = <<>>
        /\ output = 1
        /\ i = 0
        /\ tokens = <<>>
        /\ techniques = <<>>
        /\ aliased = FALSE
        /\ probs = DefaultProbs
        /\ ti = 1
        /\ tj = 1
        /\ result = <<>>
        /\ effective = <<>>
        /\ before = <<>>
        /\ last = NoInvocation
        /\ char_substitutions = DefaultCharSubstitutions
        /\ insertion_chars = DefaultInsertionChars
        /\ option_chars = DefaultOptionChars
        /\ windows_programs = DefaultWindowsPrograms
        /\ unix_programs = DefaultUnixPrograms
        /\ config_error = FALSE

NextCfg == Construct

SpecCfg == InitCfg /\ [][NextCfg]_vars

(***************************************************************************)
(* Properties                                                              *)
(***************************************************************************)
Values(toks) == [n \in DOMAIN toks |-> toks[n].value]

\* a call of obfuscate_command has returned
Returned == pc \in {"main", "exit"} /\ i >= 1

\* C1: obfuscate_command has no error conditions: whatever the command, the
\* technique list (unknown or repeated names included), the probability map
\* and the draws, the call returns; the empty command returns the empty
\* string.
C1_NoErrorConditions ==
    /\ pc # "raised"
    /\ Returned /\ command = <<>> => result = <<>>

\* C2: obfuscate_command is stateless across calls: the technique list in
\* effect in every call of main()'s loop is the one in effect in the first.
C2_StatelessAcrossCalls ==
    \A k \in DOMAIN effective : effective[k] = effective[1]

\* C3: with every probability forced to 0, obfuscate_command returns the
\* original tokens joined with single spaces (and trimmed, as line 433
\* trims), whatever the draws.
C3_ZeroProbabilityIdentity ==
    Returned /\ probabilities = ZeroProbs
        => result = Strip(JoinWith(Values(TokenizeCommand(command)), " "))

\* the dotted quads whose four octets are all in 0..255
ValidDottedQuad(value) ==
    /\ MatchesDottedQuad(value)
    /\ \A n \in 1..4 : ParseInt(Split(value, ".")[n]) <= 255

ExpectedTransformation(toks) ==
    [n \in DOMAIN toks |->
        IF toks[n].type = "argument" /\ ValidDottedQuad(toks[n].value)
        THEN StrBig(DecimalIp(toks[n].value))
        ELSE toks[n].value]

PingTransformed ==
    <<"p", "i", "n", "g", " ", "-", "n", " ", "1", " ",
      "3", "2", "3", "2", "2", "3", "5", "7", "7", "7">>

\* C4: with techniques = [ValueTransformation] at probability 1.0 the
\* result has every argument that is a dotted quad of octets 0..255
\* replaced by its 32-bit decimal value and every other token unchanged;
\* ping -n 1 192.168.1.1 gives ping -n 1 3232235777.
C4_ValueTransformationOnly ==
    /\ Returned
    /\ args_techniques = <<"ValueTransformation">>
    /\ probabilities = ValueTransformationOne
    => /\ result = Strip(JoinWith(ExpectedTransformation(TokenizeCommand(command)), " "))
       /\ command = C_ping => result = PingTransformed

\* the decimal text of a number below 2^32
RECURSIVE AtMost(_, _)
AtMost(a, b) ==
    \/ a = <<>>
    \/ DigitVal(a[1]) < DigitVal(b[1])
    \/ a[1] = b[1] /\ AtMost(Tail(a), Tail(b))

FitsUint32(digits) ==
    \/ Len(digits) < 10
    \/ /\ Len(digits) = 10
       /\ AtMost(digits, <<"4", "2", "9", "4", "9", "6", "7", "2", "9", "5">>)

\* C5: ValueTransformation keeps the value of an argument d.d.d.d with an
\* octet above 255, and a value it does replace fits 0..2^32-1.
C5_FailsOpen ==
    last.op = "ValueTransformation" =>
        LET was == before[1]
            now == tokens[last.at]
        IN  /\ /\ was.type = "argument"
               /\ MatchesDottedQuad(was.value)
               /\ ~ValidDottedQuad(was.value)
               => now.value = was.value
            /\ now.value # was.value => FitsUint32(now.value)

\* C6: when _load_config reports an error the five tables equal the
\* built-in defaults, and the construction completes.
C6_DefaultsRetained ==
    pc = "constructed" /\ config_error =>
        /\ char_substitutions = DefaultCharSubstitutions
        /\ insertion_chars = DefaultInsertionChars
        /\ option_chars = DefaultOptionChars
        /\ windows_programs = DefaultWindowsPrograms
        /\ unix_programs = DefaultUnixPrograms

DotDot == <<".", ".">>

\* the components left when each ".." cancels the component before it
RECURSIVE Resolved(_, _)
Resolved(parts, stack) ==
    IF parts = <<>> THEN stack
    ELSE IF parts[1] = DotDot /\ stack # <<>>
    THEN Resolved(Tail(parts), SubSeq(stack, 1, Len(stack) - 1))
    ELSE Resolved(Tail(parts), Append(stack, parts[1]))

\* C7: PathTraversal keeps the location of a path of more than two
\* components: resolving each ".." of the output gives the original
\* components, and each ".." follows a real component and precedes a
\* duplicate of it.
C7_PathTraversalKeepsLocation ==
    last.op = "PathTraversal" =>
        LET was == before[1]
            now == tokens[last.at]
            sep == PathSeparator(was.value)
        IN  was.type = "file_path" /\ sep # None /\ Len(Split(was.value, sep)) > 2
            => LET out == Split(now.value, sep)
               IN  /\ Resolved(out, <<>>) = Split(was.value, sep)
                   /\ \A n \in DOMAIN out :
                         out[n] = DotDot /\ DotDot \notin Range(Split(was.value, sep))
                         => /\ n > 1 /\ n < Len(out)
                            /\ out[n - 1] # DotDot
                            /\ out[n + 1] = out[n - 1]

\* the option tokens of the claim: arguments that start with - or /
StartsAsOption(token) ==
    /\ token.type = "argument"
    /\ token.value # <<>>
    /\ token.value[1] \in {"-", "/"}

Count(toks, token) == Cardinality({n \in DOMAIN toks : toks[n] = token})

\* C8: OptionReordering permutes only option tokens: the length is kept,
\* every token that is not an option keeps its index, kind and value, and
\* the option tokens are the same multiset as before.
C8_ReorderingPermutesOptions ==
    pc = "sepdel" /\ last.op = "OptionReordering" =>
        /\ Len(tokens) = Len(before)
        /\ \A n \in DOMAIN before :
              ~StartsAsOption(before[n]) => tokens[n] = before[n]
        /\ \A n \in DOMAIN before :
              StartsAsOption(before[n]) =>
                  /\ StartsAsOption(tokens[n])
                  /\ Count(tokens, before[n]) = Count(before, before[n])

\* OptionReordering has moved option tokens around a token that is no option
C8_Witness ==
    /\ pc = "sepdel"
    /\ last.op = "OptionReordering"
    /\ tokens # before
    /\ \E a, b, c \in DOMAIN before :
          /\ a < b /\ b < c
          /\ StartsAsOption(before[a]) /\ ~StartsAsOption(before[b])
          /\ StartsAsOption(before[c])
          /\ tokens[a] = before[c] /\ tokens[c] = before[a]

\* the input with every run of whitespace outside quotes made one space:
\* k is the position, q the open quote character
RECURSIVE Collapsed(_, _, _)
Collapsed(s, k, q) ==
    IF k > Len(s) THEN <<>>
    ELSE IF s[k] \in {"\"", "'"}
    THEN <<s[k]>> \o Collapsed(s, k + 1, IF q = None THEN s[k]
                                         ELSE IF q = s[k] THEN None ELSE q)
    ELSE IF IsSpace(s[k]) /\ q = None
    THEN (IF k > 1 /\ IsSpace(s[k - 1]) THEN <<>> ELSE <<" ">>) \o Collapsed(s, k + 1, q)
    ELSE <<s[k]>> \o Collapsed(s, k + 1, q)

\* the quote character open before position k of a token, which starts
\* outside quotes
RECURSIVE OpenQuote(_, _)
OpenQuote(s, k) ==
    IF k = 1 THEN None
    ELSE LET q == OpenQuote(s, k - 1)
             c == s[k - 1]
         IN  IF c \notin {"\"", "'"} THEN q
             ELSE IF q = None THEN c
             ELSE IF q = c THEN None ELSE q

TokensWellFormed ==
    \A n \in DOMAIN tokens :
        /\ tokens[n].value # <<>>
        /\ \A k \in DOMAIN tokens[n].value :
              IsSpace(tokens[n].value[k]) => OpenQuote(tokens[n].value, k) # None

\* C9 as stated: the token values joined with single spaces and trimmed
\* equal the input with the whitespace runs outside quotes made one space.
C9_RoundTripUntrimmed ==
    pc = "reorder" =>
        /\ Strip(JoinWith(Values(tokens), " ")) = Collapsed(command, 1, None)
        /\ TokensWellFormed

\* C9 amended: the token values joined with single spaces and trimmed equal
\* the input with the whitespace runs outside quotes made one space and then
\* trimmed; no token is empty and no token holds whitespace that was
\* outside quotes.
C9_RoundTripTrimmed ==
    pc = "reorder" =>
        /\ Strip(JoinWith(Values(tokens), " ")) = Strip(Collapsed(command, 1, None))
        /\ TokensWellFormed

\* an input with leading whitespace and a tab inside quotes was tokenized
C9_Witness ==
    /\ pc = "reorder"
    /\ command # <<>> /\ IsSpace(command[1])
    /\ Len(tokens) >= 1
    /\ \E n \in DOMAIN tokens : "\t" \in Range(tokens[n].value)
    /\ tokens # <<>>

\* C10: every token after the first that starts with HKLM\ or HKCU\ is
\* classified as a registry path.
C10_RegistryPathKind ==
    pc = "reorder" =>
        \A n \in DOMAIN tokens :
            n >= 2 /\ (StartsWith(tokens[n].value, HKLM) \/ StartsWith(tokens[n].value, HKCU))
            => tokens[n].type = "reg_path"

====
